---- MODULE Spec2Model ----
(***************************************************************************)
(* Model of the conversion driver of imgc (src/src/converter/mod.rs):      *)
(* convert_images (producer thread, rayon worker pool, Ctrl-C handler,     *)
(* statistics counters) and convert_image / try_read_image (the per-file   *)
(* decision pipeline), over an abstract filesystem.                        *)
(*                                                                         *)
(* A worker step is one access to shared state (channel, stop flag,        *)
(* filesystem, one atomic counter) together with the thread-local          *)
(* computation that follows it up to the next shared access.               *)
(***************************************************************************)
EXTENDS Integers, Sequences, FiniteSets, TLC

\* ---------------------------------------------------------------- bounds
NumPaths == 2
NumWorkers == 2
MaxSize == 2
MaxCtrlC == 2
MaxRuns == 2
MaxNames == 2
MaxList == 3

Tasks == 1..NumPaths
Sizes == 1..MaxSize

\* The output paths of the abstract filesystem. The input files are not
\* written in the modelled layouts; the input of task t has InputLen(t) bytes
\* (sizes alternate over the tasks so that encodes smaller than, equal to and
\* larger than an input all occur).
OutPaths == (NumPaths + 1)..(2 * NumPaths)
InputLen(t) == 1 + (t % MaxSize)

NoFile == [by |-> -1, len |-> -1]
NoRes == <<-9, 0, 0>>
NoCall == [fn |-> "none", arg |-> <<>>, result |-> <<>>]

\* A file is its length and the task whose bytes it holds (0: it was there
\* before the run, -2: bytes of more than one writer).
IsFile(f) == f # NoFile
Written(t, n) == [by |-> t, len |-> n]

\* A shorter write over a longer file that would grow the file.
Mixed_longer(n) == [by |-> -2, len |-> n + 1]

Mixed(n) == [by |-> -2, len |-> n]

\* ------------------------------------------------------- decode fallback
\* What the decoder collaborators do on one file: the lower-cased extension
\* class and the outcome of each strategy when it is attempted.
DecodeProfiles ==
    [ext : {"jpeg", "png", "other"},
     auto : {"ok", "err", "panic"},
     guessed : {"ok", "err", "panic"},
     jpeg_decoder : {"ok", "err", "badraw", "panic"},
     forced : {"ok", "err", "openerr", "panic"}]

Img(via) == [kind |-> "img", via |-> via, err |-> "none"]
DecErr(e) == [kind |-> "err", via |-> 0, err |-> e]
DecPanic(at) == [kind |-> "panic", via |-> at, err |-> "none"]

\* A result together with the strategies that were attempted to get it:
\* 1 auto-detection, 2 guessed format, 3 jpeg-decoder, 4 forced codec.
After(tried, r) == [kind |-> r.kind, via |-> r.via, err |-> r.err, tried |-> tried]

\* fallback_retry_read_image(input_path, input_error): runs outside any
\* catch_unwind, so a panic of jpeg-decoder or of the forced decode unwinds.
\* The file is reopened at line 339 whatever the extension; the forced decode
\* is attempted for a jpeg or png extension only.
fallback_retry_read_image(p, input_error) ==
    LET jpeg == IF p.ext = "jpeg" THEN <<3>> ELSE <<>> IN
    IF p.ext = "jpeg" /\ p.jpeg_decoder = "ok" THEN After(<<3>>, Img(3))
    ELSE IF p.ext = "jpeg" /\ p.jpeg_decoder = "badraw" THEN After(<<3>>, DecErr("from_raw"))
    ELSE IF p.ext = "jpeg" /\ p.jpeg_decoder = "panic" THEN After(<<3>>, DecPanic(3))
    ELSE IF p.forced = "openerr"
         THEN After(jpeg \o (IF p.ext = "other" THEN <<>> ELSE <<4>>), DecErr("open"))
    ELSE IF p.ext = "other" THEN After(jpeg, DecErr(input_error))
    ELSE IF p.forced = "ok" THEN After(jpeg \o <<4>>, Img(4))
    ELSE IF p.forced = "panic" THEN After(jpeg \o <<4>>, DecPanic(4))
    ELSE After(jpeg \o <<4>>, DecErr(input_error))

\* try_read_image with the guessed-format attempt made before the
\* auto-detection attempt.
try_read_image_guessed_first(p) ==
    IF p.guessed = "ok" THEN After(<<2>>, Img(2))
    ELSE IF p.auto = "ok" THEN After(<<2, 1>>, Img(1))
    ELSE IF p.auto = "err"
         THEN LET r == fallback_retry_read_image(p, "auto") IN
              After(<<2, 1>> \o r.tried, r)
    ELSE After(<<2, 1>>, DecPanic(1))

\* try_read_image(input_path): both attempts run under catch_unwind; a panic
\* caught in the second attempt is re-raised by result.unwrap() (line 378).
try_read_image(p) ==
    IF p.auto = "ok" THEN After(<<1>>, Img(1))
    ELSE IF p.guessed = "ok" THEN After(<<1, 2>>, Img(2))
    ELSE IF p.guessed = "err"
         THEN LET r == fallback_retry_read_image(p, "guessed") IN
              After(<<1, 2>> \o r.tried, r)
    ELSE After(<<1, 2>>, DecPanic(2))

\* ---------------------------------------------------------------- encode
\* What the encoder library does on one image.
EncoderOutcomes == {"ok", "err", "panic"}

EncData == [kind |-> "data", err |-> "none"]
EncErr(e) == [kind |-> "err", err |-> e]
EncPanic == [kind |-> "panic", err |-> "none"]

\* mozjpeg.rs 27-42: the whole encode runs under catch_unwind.
encode_mozjpeg(outcome) ==
    IF outcome = "ok" THEN EncData
    ELSE IF outcome = "err" THEN EncErr("mozjpeg encoding failed")
    ELSE EncErr("mozjpeg encoding panicked")

\* webp.rs 29-53: errors are mapped, a panic of the library unwinds.
encode_webp(outcome) ==
    IF outcome = "ok" THEN EncData
    ELSE IF outcome = "err" THEN EncErr("webp encoding failed")
    ELSE EncPanic

\* Lines 471-482: the encoder of the target format.
encode(img_format, outcome) ==
    CASE img_format = "Webp" -> encode_webp(outcome)
      [] img_format = "Jpeg" -> encode_mozjpeg(outcome)
      [] OTHER -> EncErr("Unsupported image format")

DecodeOutcomes == {try_read_image(p) : p \in DecodeProfiles}

\* ---------------------------------------------------------------- state
VARIABLES
    conf,           \* CommonConfig (output as "is it non-empty") and img_format
    paths,          \* the resolved, sorted input paths (task numbers)
    out_path,       \* the output path convert_image computes for each task
    fs,             \* files: path -> file
    dirs,           \* output paths whose parent directory exists
    root_exists,    \* the output root directory exists
    main_pc,        \* position of convert_images
    sent,           \* number of paths the producer thread has sent
    tx_open,        \* the producer still holds the sender
    queue,          \* paths in the channel
    global_stop,    \* the stop flag
    ctrlc_counter,  \* the handler's counter
    job,            \* per path: position and locals of the closure call on it
    counters,       \* the ten atomic counters
    run,            \* which run of the batch this is
    start_fs,       \* the files as they were when this run began
    first_res,      \* per path: the status the previous run gave it
    call            \* a call of one of the pure helpers: function, argument, result

vars == <<call, run, start_fs, first_res, conf, paths, out_path, fs, dirs, root_exists, main_pc, sent, tx_open, queue,
          global_stop, ctrlc_counter, job, counters>>

CounterNames ==
    {"encode_successful", "encode_skipped", "encode_discarded", "encode_errors",
     "size_input_total", "size_output_total",
     "size_input_preexisting", "size_output_preexisting",
     "size_input_discarded", "size_output_discarded"}

\* The closure call on one path. The locals are those of the closure and of
\* convert_image; ops, stop_seen, ret and adds record what the call did.
NewJob ==
    [pc |-> "new",          \* new, queued, check .. count, returned, panicked
     k |-> 0,               \* index of the next fetch_add of the match arm
     takes |-> 0,           \* times the path was received from the channel
     stop_seen |-> "none",  \* what the dispatch-time load of the flag returned
     ops |-> {},            \* filesystem and codec operations performed
     input_size |-> 0,
     output_size |-> 0,
     seen1 |-> NoFile,      \* the file found by the first existence check
     seen2 |-> NoFile,      \* the file found by the post-encode check
     replaced |-> NoFile,   \* the file that was at the output path when fs::write opened it
     dec |-> "none",        \* result of try_read_image
     ret |-> "none",        \* how convert_image ended
     res |-> NoRes,         \* the closure's (status, input size, output size)
     adds |-> {}]           \* fetch_adds made for the path: <<counter, amount>>

\* A pool thread is running the closure on path t (a thread whose closure
\* panicked takes no further path).
Running(t) == job[t].pc \notin {"new", "queued", "returned"}

\* The locals of convert_image are gone once the closure is in its match;
\* the result and the record of the call stay.
Folded(j) ==
    [j EXCEPT !.input_size = 0, !.output_size = 0, !.seen1 = NoFile,
              !.seen2 = NoFile, !.replaced = NoFile, !.dec = "none"]

\* The closure returns res.
Returned(j) == [j EXCEPT !.pc = "returned", !.k = 0]

Flags == [overwrite_if_smaller : BOOLEAN, overwrite_existing : BOOLEAN,
          discard_if_larger_than_input : BOOLEAN]

\* Task 1 maps to the first output path; every other task maps to its own
\* output path or collides with task 1 (a.jpg and a.png both to a.webp).
OutPathChoices ==
    {f \in [Tasks -> OutPaths] :
        \A t \in Tasks : f[t] \in {NumPaths + t, NumPaths + 1}}

Init ==
    /\ \E fl \in Flags, o \in BOOLEAN, fmt \in {"Webp", "Unknown"}, n \in 1..NumWorkers :
          conf = [output_set |-> o, img_format |-> fmt, threads |-> n,
                  overwrite_if_smaller |-> fl.overwrite_if_smaller,
                  overwrite_existing |-> fl.overwrite_existing,
                  discard_if_larger_than_input |-> fl.discard_if_larger_than_input]
    /\ \E n \in 0..NumPaths : paths = [i \in 1..n |-> i]
    /\ out_path \in OutPathChoices
    /\ \A t \in Tasks : t > Len(paths) => out_path[t] = NumPaths + t
    /\ \E used \in SUBSET OutPaths :
          /\ used = {out_path[paths[i]] : i \in 1..Len(paths)}
          /\ fs \in [OutPaths -> {NoFile} \cup [by : {0}, len : Sizes]]
          /\ \A p \in OutPaths \ used : ~IsFile(fs[p])
          /\ dirs \in SUBSET used
          /\ \A p \in used : IsFile(fs[p]) => p \in dirs
          /\ ~conf.output_set => dirs = used
          /\ root_exists \in BOOLEAN
          /\ ~conf.output_set => root_exists
          /\ ~root_exists => dirs = {}
    /\ main_pc = "start"
    /\ sent = 0
    /\ tx_open = TRUE
    /\ queue = <<>>
    /\ global_stop = FALSE
    /\ ctrlc_counter = 0
    /\ job = [t \in Tasks |-> NewJob]
    /\ counters = [c \in CounterNames |-> 0]
    /\ run = 1
    /\ start_fs = fs
    /\ first_res = [t \in Tasks |-> NoRes[1]]
    /\ call = NoCall

\* ------------------------------------------------- convert_images: main
\* Lines 131-175 with the output root created before the empty check.
Begin_root_first ==
    /\ main_pc = "start"
    /\ \/ /\ conf.output_set /\ ~root_exists
          /\ root_exists' = TRUE
          /\ main_pc' = IF Len(paths) = 0 THEN "nothing" ELSE "running"
       \/ /\ ~(conf.output_set /\ ~root_exists)
          /\ main_pc' = IF Len(paths) = 0 THEN "nothing" ELSE "running"
          /\ UNCHANGED root_exists
    /\ UNCHANGED <<call, run, start_fs, first_res, conf, paths, out_path, fs, dirs, sent, tx_open, queue,
                   global_stop, ctrlc_counter, job, counters>>

\* Lines 104-175: the glob (an invalid pattern is returned as an error and
\* nothing is resolved), the empty check, the output root (process::exit(1)
\* when it cannot be created), the handler, the channel.
Begin ==
    /\ main_pc = "start"
    /\ \/ /\ Len(paths) = 0
          /\ main_pc' = "pattern_error"
          /\ UNCHANGED root_exists
       \/ /\ Len(paths) = 0
          /\ main_pc' = "nothing"
          /\ UNCHANGED root_exists
       \/ /\ Len(paths) > 0
          /\ conf.output_set /\ ~root_exists
          /\ \/ root_exists' = TRUE /\ main_pc' = "running"
             \/ root_exists' = FALSE /\ main_pc' = "exit"
       \/ /\ Len(paths) > 0
          /\ ~(conf.output_set /\ ~root_exists)
          /\ main_pc' = "running"
          /\ UNCHANGED root_exists
    /\ UNCHANGED <<call, run, start_fs, first_res, conf, paths, out_path, fs, dirs, sent, tx_open, queue,
                   global_stop, ctrlc_counter, job, counters>>

\* The handler storing the negation of what it loaded.
CtrlC_toggle ==
    /\ main_pc = "running"
    /\ ctrlc_counter < MaxCtrlC
    /\ global_stop' = ~global_stop
    /\ ctrlc_counter' = ctrlc_counter + 1
    /\ UNCHANGED <<call, run, start_fs, first_res, conf, paths, out_path, fs, dirs, root_exists, main_pc, sent,
                   tx_open, queue, job, counters>>

\* Lines 164-172: the Ctrl-C handler.
CtrlC ==
    /\ main_pc = "running"
    /\ ctrlc_counter < MaxCtrlC
    /\ global_stop' = (IF ~global_stop THEN TRUE ELSE global_stop)
    /\ ctrlc_counter' = ctrlc_counter + 1
    /\ UNCHANGED <<call, run, start_fs, first_res, conf, paths, out_path, fs, dirs, root_exists, main_pc, sent,
                   tx_open, queue, job, counters>>

\* Lines 178-183 with a channel that hands out the newest path first.
Produce_lifo ==
    /\ tx_open
    /\ sent < Len(paths)
    /\ \/ /\ main_pc = "running"
          /\ queue' = <<paths[sent + 1]>> \o queue
          /\ job' = [job EXCEPT ![paths[sent + 1]].pc = "queued"]
          /\ sent' = sent + 1
          /\ UNCHANGED tx_open
       \/ /\ main_pc = "panicked"
          /\ tx_open' = FALSE
          /\ UNCHANGED <<queue, sent, job>>
    /\ UNCHANGED <<call, run, start_fs, first_res, conf, paths, out_path, fs, dirs, root_exists, main_pc,
                   global_stop, ctrlc_counter, counters>>

\* Lines 178-183: the producer thread sends the next path; the send fails
\* once the receiver is gone.
Produce ==
    /\ tx_open
    /\ sent < Len(paths)
    /\ \/ /\ main_pc = "running"
          /\ queue' = Append(queue, paths[sent + 1])
          /\ job' = [job EXCEPT ![paths[sent + 1]].pc = "queued"]
          /\ sent' = sent + 1
          /\ UNCHANGED tx_open
       \/ /\ main_pc = "panicked"
          /\ tx_open' = FALSE
          /\ UNCHANGED <<queue, sent, job>>
    /\ UNCHANGED <<call, run, start_fs, first_res, conf, paths, out_path, fs, dirs, root_exists, main_pc,
                   global_stop, ctrlc_counter, counters>>

\* Line 185: drop(tx) after the last path.
CloseChannel ==
    /\ tx_open
    /\ main_pc \in {"running", "panicked"}
    /\ sent = Len(paths)
    /\ tx_open' = FALSE
    /\ UNCHANGED <<call, run, start_fs, first_res, conf, paths, out_path, fs, dirs, root_exists, main_pc, sent,
                   queue, global_stop, ctrlc_counter, job, counters>>

\* ------------------------------------------------ convert_images: workers
\* handle_conversion_error (lines 70-74) returns the aborted code ...
handle_conversion_error == <<-2, 0, 0>>

\* What line 218 would yield if the mapped error were kept.
ErrorResult_mapped(mapped_err) == mapped_err

\* ... which unwrap_or_else(|_| (-1, 0, 0)) at line 218 drops.
ErrorResult(mapped_err) == <<-1, 0, 0>>

\* The match of lines 220-242 with the Discarded arm adding to the input and
\* output totals as well.
CounterAdds_discarded_in_totals(res) ==
    CASE res[1] = 0 -> <<(<<"encode_successful", 1>>),
                         (<<"size_input_total", res[2]>>),
                         (<<"size_output_total", res[3]>>)>>
      [] res[1] = 1 -> <<(<<"encode_skipped", 1>>),
                         (<<"size_input_total", res[2]>>),
                         (<<"size_output_total", res[3]>>),
                         (<<"size_input_preexisting", res[2]>>),
                         (<<"size_output_preexisting", res[3]>>)>>
      [] res[1] = 2 -> <<(<<"encode_discarded", 1>>),
                         (<<"size_input_total", res[2]>>),
                         (<<"size_output_total", res[3]>>),
                         (<<"size_input_discarded", res[2]>>),
                         (<<"size_output_discarded", res[3]>>)>>
      [] res[1] = -1 -> <<(<<"encode_errors", 1>>)>>
      [] OTHER -> <<>>

\* The match of lines 220-242 with the Skipped arm adding to the pre-existing
\* totals before the input and output totals.
CounterAdds_preexisting_first(res) ==
    CASE res[1] = 0 -> <<(<<"encode_successful", 1>>),
                         (<<"size_input_total", res[2]>>),
                         (<<"size_output_total", res[3]>>)>>
      [] res[1] = 1 -> <<(<<"encode_skipped", 1>>),
                         (<<"size_input_preexisting", res[2]>>),
                         (<<"size_output_preexisting", res[3]>>),
                         (<<"size_input_total", res[2]>>),
                         (<<"size_output_total", res[3]>>)>>
      [] res[1] = 2 -> <<(<<"encode_discarded", 1>>),
                         (<<"size_input_discarded", res[2]>>),
                         (<<"size_output_discarded", res[3]>>)>>
      [] res[1] = -1 -> <<(<<"encode_errors", 1>>)>>
      [] OTHER -> <<>>

\* Lines 220-242: the fetch_adds of the match arm for a result, in order.
CounterAdds(res) ==
    CASE res[1] = 0 -> <<(<<"encode_successful", 1>>),
                         (<<"size_input_total", res[2]>>),
                         (<<"size_output_total", res[3]>>)>>
      [] res[1] = 1 -> <<(<<"encode_skipped", 1>>),
                         (<<"size_input_total", res[2]>>),
                         (<<"size_output_total", res[3]>>),
                         (<<"size_input_preexisting", res[2]>>),
                         (<<"size_output_preexisting", res[3]>>)>>
      [] res[1] = 2 -> <<(<<"encode_discarded", 1>>),
                         (<<"size_input_discarded", res[2]>>),
                         (<<"size_output_discarded", res[3]>>)>>
      [] res[1] = -1 -> <<(<<"encode_errors", 1>>)>>
      [] OTHER -> <<>>

\* convert_image returned Ok(res), which line 218 passes on.
ReturnOk(t, j, res) ==
    job' = [job EXCEPT ![t] = [j EXCEPT !.ret = "Ok", !.res = res,
                                         !.pc = "count", !.k = 1]]

\* convert_image returned Err: line 218 turns it into the closure's result.
ReturnErr(t, j) ==
    job' = [job EXCEPT ![t] = [j EXCEPT !.ret = "Err",
                                         !.res = ErrorResult(handle_conversion_error),
                                         !.pc = "count", !.k = 1]]

\* par_bridge with closures started beyond the number of pool threads.
Take_unbounded(t) ==
    /\ main_pc = "running"
    /\ queue # <<>>
    /\ t = Head(queue)
    /\ job' = [job EXCEPT ![t].pc = "check", ![t].takes = @ + 1]
    /\ queue' = Tail(queue)
    /\ UNCHANGED <<call, run, start_fs, first_res, conf, paths, out_path, fs, dirs, root_exists, main_pc, sent,
                   tx_open, global_stop, ctrlc_counter, counters>>

\* par_bridge: a free pool thread takes the next path from the channel. The
\* pool is rayon's global one: conf.threads threads, one closure each.
Take(t) ==
    /\ main_pc = "running"
    /\ queue # <<>>
    /\ t = Head(queue)
    /\ Cardinality({u \in Tasks : Running(u)}) < conf.threads
    /\ job' = [job EXCEPT ![t].pc = "check", ![t].takes = @ + 1]
    /\ queue' = Tail(queue)
    /\ UNCHANGED <<call, run, start_fs, first_res, conf, paths, out_path, fs, dirs, root_exists, main_pc, sent,
                   tx_open, global_stop, ctrlc_counter, counters>>

\* Lines 207-209: the dispatch-time load of the stop flag.
StopRequested(flag) == flag
Loaded(flag) == IF flag THEN "set" ELSE "unset"

CheckStop(t) ==
    /\ job[t].pc = "check"
    /\ IF StopRequested(global_stop)
       THEN job' = [job EXCEPT ![t] = Returned([@ EXCEPT !.stop_seen = Loaded(global_stop),
                                                         !.ret = "Abort",
                                                         !.res = <<-2, 0, 0>>])]
       ELSE job' = [job EXCEPT ![t].stop_seen = Loaded(global_stop),
                               ![t].pc = IF conf.output_set THEN "mkdir" ELSE "probe"]
    /\ UNCHANGED <<call, run, start_fs, first_res, conf, paths, out_path, fs, dirs, root_exists, main_pc, sent,
                   tx_open, queue, global_stop, ctrlc_counter, counters>>

\* Lines 444-455 creating the output file along with its directory.
MkDir_touch(t) ==
    LET p == out_path[t]
        j == [job[t] EXCEPT !.ops = @ \cup {"mkdir"}] IN
    /\ job[t].pc = "mkdir"
    /\ \/ /\ dirs' = dirs \cup {p}
          /\ fs' = [fs EXCEPT ![p] = IF IsFile(@) THEN @ ELSE Written(t, 0)]
          /\ job' = [job EXCEPT ![t] = [j EXCEPT !.pc = "probe"]]
       \/ /\ p \notin dirs
          /\ ReturnErr(t, j)
          /\ UNCHANGED <<dirs, fs>>
    /\ UNCHANGED <<call, run, start_fs, first_res, conf, paths, out_path, root_exists, main_pc, sent,
                   tx_open, queue, global_stop, ctrlc_counter, counters>>

\* Lines 444-455: with an output root, create_dir_all of the target directory.
MkDir(t) ==
    LET p == out_path[t]
        j == [job[t] EXCEPT !.ops = @ \cup {"mkdir"}] IN
    /\ job[t].pc = "mkdir"
    /\ \/ /\ dirs' = dirs \cup {p}
          /\ job' = [job EXCEPT ![t] = [j EXCEPT !.pc = "probe"]]
       \/ /\ p \notin dirs
          /\ ReturnErr(t, j)
          /\ UNCHANGED dirs
    /\ UNCHANGED <<call, run, start_fs, first_res, conf, paths, out_path, fs, root_exists, main_pc, sent,
                   tx_open, queue, global_stop, ctrlc_counter, counters>>

\* Line 459 with the negation of overwrite_if_smaller left out.
SkipExisting_unnegated(exists, overwrite_existing, overwrite_if_smaller) ==
    exists /\ ~overwrite_existing /\ overwrite_if_smaller

\* Line 459 with overwrite_existing tested the wrong way round.
SkipExisting_when_overwrite(exists, overwrite_existing, overwrite_if_smaller) ==
    exists /\ overwrite_existing /\ ~overwrite_if_smaller

\* Line 459: the early return for an output that is already there.
SkipExisting(exists, overwrite_existing, overwrite_if_smaller) ==
    exists /\ ~overwrite_existing /\ ~overwrite_if_smaller

\* Lines 458-463: the input's size, then the first existence check.
Probe(t) ==
    LET p == out_path[t]
        j == [job[t] EXCEPT !.ops = @ \cup {"metadata"}] IN
    /\ job[t].pc = "probe"
    /\ \/ ReturnErr(t, j)
       \/ LET j2 == [j EXCEPT !.input_size = InputLen(t), !.seen1 = fs[p]] IN
          IF SkipExisting(IsFile(fs[p]), conf.overwrite_existing,
                          conf.overwrite_if_smaller)
          THEN ReturnOk(t, j2, <<1, j2.input_size, fs[p].len>>)
          ELSE job' = [job EXCEPT ![t] = [j2 EXCEPT !.pc = "convert"]]
    /\ UNCHANGED <<call, run, start_fs, first_res, conf, paths, out_path, fs, dirs, root_exists, main_pc, sent,
                   tx_open, queue, global_stop, ctrlc_counter, counters>>

\* Lines 465-482 and 513-515: decode and encode; nothing shared is touched.
\* A decoder panic that try_read_image lets through, or a panic of an encoder
\* that does not catch it, unwinds the pool thread.
Convert(t) ==
    LET jd == [job[t] EXCEPT !.ops = @ \cup {"decode"}]
        je == [jd EXCEPT !.ops = @ \cup {"encode"}] IN
    /\ job[t].pc = "convert"
    /\ \E d \in DecodeOutcomes :
          \/ /\ d.kind = "panic"
             /\ job' = [job EXCEPT ![t] = [jd EXCEPT !.dec = "panic",
                                                      !.ret = "Panic",
                                                      !.pc = "panicked"]]
          \/ /\ d.kind = "err"
             /\ ReturnErr(t, [jd EXCEPT !.dec = "err"])
          \/ /\ d.kind = "img"
             /\ conf.img_format = "Unknown"
             /\ ReturnErr(t, [jd EXCEPT !.dec = "img"])
          \/ /\ d.kind = "img"
             /\ conf.img_format # "Unknown"
             /\ \E o \in EncoderOutcomes :
                   LET e == encode(conf.img_format, o) IN
                   \/ /\ e.kind = "panic"
                      /\ job' = [job EXCEPT ![t] = [je EXCEPT !.dec = "img",
                                                               !.ret = "Panic",
                                                               !.pc = "panicked"]]
                   \/ /\ e.kind = "err"
                      /\ ReturnErr(t, [je EXCEPT !.dec = "img"])
                   \/ /\ e.kind = "data"
                      /\ \E n \in Sizes :
                            job' = [job EXCEPT ![t] = [je EXCEPT !.dec = "img",
                                                                 !.output_size = n,
                                                                 !.pc = "cmp"]]
    /\ UNCHANGED <<call, run, start_fs, first_res, conf, paths, out_path, fs, dirs, root_exists, main_pc, sent,
                   tx_open, queue, global_stop, ctrlc_counter, counters>>

\* Lines 487-489 and 501 with strict comparisons.
NotSmaller_strict(exists, output_size, existing_len, overwrite_if_smaller) ==
    exists /\ output_size > existing_len /\ overwrite_if_smaller

DiscardLarger_strict(discard_if_larger_than_input, output_size, input_size) ==
    discard_if_larger_than_input /\ output_size > input_size

\* Lines 487-489: the existing output is not larger than the new encode.
NotSmaller(exists, output_size, existing_len, overwrite_if_smaller) ==
    exists /\ output_size >= existing_len /\ overwrite_if_smaller

\* Line 501.
DiscardLarger(discard_if_larger_than_input, output_size, input_size) ==
    discard_if_larger_than_input /\ output_size >= input_size

\* Lines 487-508 with the discard check made before the not-smaller check.
Cmp_discard_first(t) ==
    LET p == out_path[t]
        j == [job[t] EXCEPT !.seen2 = fs[p]] IN
    /\ job[t].pc = "cmp"
    /\ \/ ReturnErr(t, job[t])
       \/ IF DiscardLarger(conf.discard_if_larger_than_input, j.output_size,
                           j.input_size)
          THEN ReturnOk(t, j, <<2, j.input_size, j.output_size>>)
          ELSE IF NotSmaller(IsFile(fs[p]), j.output_size, fs[p].len,
                             conf.overwrite_if_smaller)
          THEN job' = [job EXCEPT ![t] = [j EXCEPT !.pc = "skipmeta"]]
          ELSE job' = [job EXCEPT ![t] = [j EXCEPT !.pc = "wopen"]]
    /\ UNCHANGED <<call, run, start_fs, first_res, conf, paths, out_path, fs, dirs, root_exists, main_pc, sent,
                   tx_open, queue, global_stop, ctrlc_counter, counters>>

\* Lines 487-508: the post-encode checks, in their order; the existence and
\* metadata queries may fail.
Cmp(t) ==
    LET p == out_path[t]
        j == [job[t] EXCEPT !.seen2 = fs[p]] IN
    /\ job[t].pc = "cmp"
    /\ \/ ReturnErr(t, job[t])
       \/ IF NotSmaller(IsFile(fs[p]), j.output_size, fs[p].len,
                        conf.overwrite_if_smaller)
          THEN job' = [job EXCEPT ![t] = [j EXCEPT !.pc = "skipmeta"]]
          ELSE IF DiscardLarger(conf.discard_if_larger_than_input, j.output_size,
                                j.input_size)
          THEN ReturnOk(t, j, <<2, j.input_size, j.output_size>>)
          ELSE job' = [job EXCEPT ![t] = [j EXCEPT !.pc = "wopen"]]
    /\ UNCHANGED <<call, run, start_fs, first_res, conf, paths, out_path, fs, dirs, root_exists, main_pc, sent,
                   tx_open, queue, global_stop, ctrlc_counter, counters>>

\* Line 498: the size reported for the kept file is read again.
SkipMeta(t) ==
    /\ job[t].pc = "skipmeta"
    /\ \/ ReturnOk(t, job[t], <<1, job[t].input_size, fs[out_path[t]].len>>)
       \/ ReturnErr(t, job[t])
    /\ UNCHANGED <<call, run, start_fs, first_res, conf, paths, out_path, fs, dirs, root_exists, main_pc, sent,
                   tx_open, queue, global_stop, ctrlc_counter, counters>>

\* Line 510, fs::write, first half: create or truncate the output file.
WOpen(t) ==
    LET p == out_path[t] IN
    /\ job[t].pc = "wopen"
    /\ \/ /\ p \in dirs
          /\ fs' = [fs EXCEPT ![p] = Written(t, 0)]
          /\ job' = [job EXCEPT ![t].ops = @ \cup {"write"}, ![t].replaced = fs[p],
                                ![t].pc = "wdata"]
       \/ /\ ReturnErr(t, job[t])
          /\ UNCHANGED fs
    /\ UNCHANGED <<call, run, start_fs, first_res, conf, paths, out_path, dirs, root_exists, main_pc, sent,
                   tx_open, queue, global_stop, ctrlc_counter, counters>>

\* Line 511 reporting the input's size as the output's.
SuccessResult_input(input_size, output_size) == <<0, input_size, input_size>>

\* The result of convert_image after the write, line 511.
SuccessResult(input_size, output_size) == <<0, input_size, output_size>>

\* Line 510, fs::write, second half: write_all from offset 0. Bytes another
\* writer put beyond the end of this write stay in the file.
WData(t) ==
    LET p == out_path[t]
        n == job[t].output_size IN
    /\ job[t].pc = "wdata"
    /\ \/ /\ fs' = [fs EXCEPT ![p] = IF n >= fs[p].len THEN Written(t, n)
                                                      ELSE Mixed(fs[p].len)]
          /\ ReturnOk(t, job[t], SuccessResult(job[t].input_size, n))
       \/ /\ ReturnErr(t, job[t])
          /\ UNCHANGED fs
    /\ UNCHANGED <<call, run, start_fs, first_res, conf, paths, out_path, dirs, root_exists, main_pc, sent,
                   tx_open, queue, global_stop, ctrlc_counter, counters>>

\* Lines 220-242 and 266: the next fetch_add of the match arm; after the
\* last one the closure returns res.
Count(t) ==
    LET adds == CounterAdds(job[t].res)
        k == job[t].k IN
    /\ job[t].pc = "count"
    /\ IF k > Len(adds)
       THEN /\ job' = [job EXCEPT ![t] = Returned(Folded(@))]
            /\ UNCHANGED counters
       ELSE LET j == [Folded(job[t]) EXCEPT !.adds = @ \cup {adds[k]}, !.k = k + 1] IN
            /\ counters' = [counters EXCEPT ![adds[k][1]] = @ + adds[k][2]]
            /\ job' = [job EXCEPT ![t] = IF k = Len(adds) THEN Returned(j) ELSE j]
    /\ UNCHANGED <<call, run, start_fs, first_res, conf, paths, out_path, fs, dirs, root_exists, main_pc, sent,
                   tx_open, queue, global_stop, ctrlc_counter>>

\* Lines 268-310: the channel is closed and drained and every closure has
\* returned: collect ends and the statistics are printed.
Finish ==
    /\ main_pc = "running"
    /\ ~tx_open
    /\ queue = <<>>
    /\ \A t \in Tasks : ~Running(t)
    /\ main_pc' = "done"
    /\ UNCHANGED <<call, run, start_fs, first_res, conf, paths, out_path, fs, dirs, root_exists, sent, tx_open,
                   queue, global_stop, ctrlc_counter, job, counters>>

\* A panic of a closure is resumed by rayon in the caller of collect once no
\* other closure is running: convert_images unwinds without a report.
Unwind ==
    /\ main_pc = "running"
    /\ \E t \in Tasks : job[t].pc = "panicked"
    /\ \A t \in Tasks : Running(t) => job[t].pc = "panicked"
    /\ main_pc' = "panicked"
    /\ UNCHANGED <<call, run, start_fs, first_res, conf, paths, out_path, fs, dirs, root_exists, sent, tx_open,
                   queue, global_stop, ctrlc_counter, job, counters>>

\* The same batch is run again after a completed run: a new process, the
\* same configuration and pattern, the filesystem as the run left it. What
\* is on disk is now there "from before the run". The runs followed up are
\* those of the idempotence scenario: both overwrite flags unset, a first run
\* that began with no output file and in which no path failed or was aborted.
Rerun ==
    /\ main_pc = "done"
    /\ run < MaxRuns
    /\ ~conf.overwrite_existing /\ ~conf.overwrite_if_smaller
    /\ \A p \in OutPaths : ~IsFile(start_fs[p])
    /\ \A i \in 1..Len(paths) : job[paths[i]].res[1] \in {0, 1, 2}
    /\ run' = run + 1
    /\ first_res' = [t \in Tasks |-> job[t].res[1]]
    /\ fs' = [p \in OutPaths |-> IF IsFile(fs[p]) THEN [by |-> 0, len |-> fs[p].len]
                                                  ELSE NoFile]
    /\ start_fs' = fs'
    /\ main_pc' = "start"
    /\ sent' = 0
    /\ tx_open' = TRUE
    /\ queue' = <<>>
    /\ global_stop' = FALSE
    /\ ctrlc_counter' = 0
    /\ job' = [t \in Tasks |-> NewJob]
    /\ counters' = [c \in CounterNames |-> 0]
    /\ UNCHANGED <<call, conf, paths, out_path, dirs, root_exists>>

WorkerStep(t) ==
    \/ Take(t)
    \/ CheckStop(t)
    \/ MkDir(t)
    \/ Probe(t)
    \/ Convert(t)
    \/ Cmp(t)
    \/ SkipMeta(t)
    \/ WOpen(t)
    \/ WData(t)
    \/ Count(t)

Next ==
    \/ Begin
    \/ CtrlC
    \/ Produce
    \/ CloseChannel
    \/ Finish
    \/ Unwind
    \/ Rerun
    \/ \E t \in Tasks : WorkerStep(t)

Spec == Init /\ [][Next]_vars

\* ---------------------------------------------------------------- claims
Dispatched == {paths[i] : i \in 1..Len(paths)}

OutcomeCounters ==
    {"encode_successful", "encode_skipped", "encode_discarded", "encode_errors"}

\* The outcome counters the closure on path t has incremented.
OutcomeAdds(t) == {a \in job[t].adds : a[1] \in OutcomeCounters}

\* No other dispatched path maps to the output path of t.
NoCollision(t) == \A u \in Dispatched : u # t => out_path[u] # out_path[t]

\* convert_image has just returned for path t: res is set and the locals of
\* the call are still there.
AtReturn(t) == job[t].pc = "count" /\ job[t].k = 1

Wrote(t) == "write" \in job[t].ops

\* Every step but the Ctrl-C handler.
RunStep ==
    \/ Produce
    \/ CloseChannel
    \/ Finish
    \/ Unwind
    \/ \E t \in Tasks : WorkerStep(t)

\* A panic of the encoder has unwound some closure (the decode had succeeded).
EncoderPanicked == \E t \in Tasks : job[t].ret = "Panic" /\ job[t].dec = "img"

\* C1: when convert_images has finished, every dispatched path has been
\* counted in exactly one outcome counter, and the outcome counters add up to
\* the number of dispatched paths. (The code keeps four outcome counters: the
\* closure of an aborted path returns at line 208, before the match, so no
\* count of aborted paths exists to be added.)
C1_OutcomeCountsSumToDispatched ==
    main_pc = "done" =>
        /\ \A t \in Dispatched : Cardinality(OutcomeAdds(t)) = 1
        /\ counters["encode_successful"] + counters["encode_skipped"]
             + counters["encode_discarded"] + counters["encode_errors"]
           = Len(paths)

\* C2: a path whose dispatch-time check read the flag as set is aborted and
\* has done no directory creation, read, decode, encode or write; a path
\* whose check read the flag as unset is never aborted, runs to completion
\* (its closure does not unwind) and is counted under its outcome. Runs in
\* which an encoder panicked are left aside.
C2_StopCheckDecidesTask ==
    ~EncoderPanicked =>
    \A t \in Tasks :
        /\ job[t].stop_seen = "set" =>
              job[t].ret = "Abort" /\ job[t].ops = {} /\ job[t].res = <<-2, 0, 0>>
        /\ job[t].stop_seen = "unset" =>
              /\ job[t].ret \notin {"Abort", "Panic"}
              /\ job[t].pc = "returned" =>
                    /\ job[t].res[1] \in {0, 1, 2, -1}
                    /\ Cardinality(OutcomeAdds(t)) = 1

C4_DecoderPanicContained ==
    ~EncoderPanicked =>
        /\ \A t \in Tasks : job[t].ret # "Panic"
        /\ main_pc # "panicked"

\* C5: a path for which convert_image returned an error gets the result
\* (-1, 0, 0), never the aborted code; its closure increments encode_errors by
\* one and no other counter, and encode_errors is exactly the number of such
\* increments (no other path's count is disturbed).
C5_ErrorCountedOnce ==
    /\ \A t \in Tasks :
          job[t].ret = "Err" =>
              /\ job[t].res = <<-1, 0, 0>>
              /\ job[t].adds \subseteq {<<"encode_errors", 1>>}
              /\ job[t].pc = "returned" => job[t].adds = {<<"encode_errors", 1>>}
    /\ counters["encode_errors"]
         = Cardinality({t \in Tasks : <<"encode_errors", 1>> \in job[t].adds})
    /\ \A t \in Tasks :
          <<"encode_errors", 1>> \in job[t].adds => job[t].ret = "Err"

C5_Witness ==
    \E t, u \in Tasks :
        /\ job[t].ret = "Err" /\ job[t].pc = "returned"
        /\ job[u].pc = "returned" /\ job[u].res[1] = 0

\* C6: once the producer and the workers are started, the run can stop only
\* after the final statistics report. Runs in which an encoder panicked are
\* left aside.
C6_RunEndsInReport ==
    (~EncoderPanicked /\ main_pc \in {"running", "panicked", "done"} /\ ~ENABLED RunStep)
        => main_pc = "done"

\* The encode of path t has produced output_size bytes.
Encoded(t) == job[t].output_size > 0

C9_OverwriteExistingReplaces ==
    \A t \in Tasks :
        (conf.overwrite_existing /\ AtReturn(t) /\ IsFile(job[t].seen1)
           /\ Encoded(t) /\ job[t].ret = "Ok" /\ job[t].res[1] # 2) =>
            job[t].res[1] = 0 /\ Wrote(t)

\* C10 (as stated): when the run has finished, the output size reported for a
\* successful path is the size of the file at its output path.
C10_SuccessSizeAsStated ==
    main_pc = "done" =>
        \A t \in Dispatched :
            job[t].res[1] = 0 => fs[out_path[t]].len = job[t].res[3]

\* C10 (amended): for a successful path to whose output path no other input
\* of the run maps, the file at the output path is the one this path wrote
\* and its size is the reported output size, from the return of the write to
\* the end of the run; the reported size is the encoded size.
C10_SuccessSize ==
    \A t \in Tasks :
        job[t].res[1] = 0 =>
            /\ Wrote(t)
            /\ AtReturn(t) => job[t].res = <<0, InputLen(t), job[t].output_size>>
            /\ NoCollision(t) => fs[out_path[t]] = Written(t, job[t].res[3])

C10_Witness ==
    \E t \in Dispatched :
        /\ main_pc = "done"
        /\ job[t].res[1] = 0
        /\ job[t].res[3] # InputLen(t)
        /\ NoCollision(t)

\* The second run of the batch (both overwrite flags are unset and the first
\* run began with no output file, see Rerun).
SecondRun == run = 2

\* C11 (as stated): when the second run has finished with no path failed or
\* aborted, every path was Success in the first run and is Skipped in the
\* second, and the output files are as the first run left them.
C11_IdempotentAsStated ==
    (SecondRun /\ main_pc = "done"
       /\ \A t \in Dispatched : job[t].res[1] \notin {-1, -2}) =>
        /\ \A t \in Dispatched : first_res[t] = 0 /\ job[t].res[1] = 1
        /\ fs = start_fs

\* C11 (amended): in the second run, every path that was Success or Skipped in
\* the first run finds its output and, unless it fails or is aborted, is
\* Skipped with the input's size and the size of the file the first run left,
\* having written nothing; the file stays as the first run left it. When no
\* two inputs map to the same output path and discard-if-larger-than-input is
\* unset, a first run in which no path failed or was aborted gave N Success,
\* so that the second gives N Skipped and leaves every output file unchanged.
C11_Idempotent ==
    SecondRun =>
        /\ \A t \in Dispatched :
              first_res[t] \in {0, 1} =>
                  /\ IsFile(start_fs[out_path[t]])
                  /\ fs[out_path[t]] = start_fs[out_path[t]]
                  /\ ~Wrote(t)
                  /\ job[t].ops \cap {"decode", "encode"} = {}
                  /\ job[t].ret = "Ok" =>
                        job[t].res = <<1, InputLen(t), start_fs[out_path[t]].len>>
        /\ ((\A t \in Dispatched : NoCollision(t))
              /\ ~conf.discard_if_larger_than_input) =>
              /\ \A t \in Dispatched : first_res[t] = 0
              /\ fs = start_fs
              /\ (main_pc = "done" /\ \A t \in Dispatched : job[t].ret = "Ok") =>
                    counters["encode_skipped"] = Len(paths)

C11_Witness ==
    /\ SecondRun
    /\ main_pc = "done"
    /\ Len(paths) = NumPaths
    /\ \A t \in Dispatched : first_res[t] = 0 /\ job[t].res[1] = 1
    /\ counters["encode_skipped"] = NumPaths

\* Nothing of a run has happened: no path sent, queued or taken, no counter
\* touched, no interrupt handled, no file or directory changed.
Untouched ==
    /\ sent = 0
    /\ queue = <<>>
    /\ job = [t \in Tasks |-> NewJob]
    /\ counters = [c \in CounterNames |-> 0]
    /\ ctrlc_counter = 0
    /\ ~global_stop
    /\ fs = start_fs

\* C14: a pattern that resolves to no convertible file ends the run at the
\* nothing-to-convert message: the step that gets there changes nothing else
\* (the output root is not created), and from there no handler, producer,
\* worker or report step can be taken and nothing has been touched.
C14_NothingToConvert ==
    /\ [](main_pc = "nothing" =>
             /\ Len(paths) = 0
             /\ Untouched
             /\ dirs = {}
             /\ ~ENABLED Next)
    /\ [][main_pc' = "nothing" =>
             /\ main_pc = "start"
             /\ UNCHANGED <<root_exists, dirs, fs, sent, tx_open, queue,
                            global_stop, ctrlc_counter, job, counters>>]_vars
    /\ []((Len(paths) = 0 /\ main_pc # "start") =>
             main_pc \in {"nothing", "pattern_error"})

C14_Witness ==
    /\ main_pc = "nothing"
    /\ conf.output_set
    /\ ~root_exists

\* A capacity that some batch exceeds.
QueueCapacity == NumPaths - 1

\* C15: the number of paths sent and not yet taken never exceeds the
\* capacity of the queue.
C15_QueueBounded == Len(queue) <= QueueCapacity

\* C16: no path is received twice, and when the run has stopped every
\* resolved path has been received by a worker once. Runs in which an encoder
\* panicked are left aside.
C16_HandedOverOnce ==
    /\ \A t \in Tasks : job[t].takes <= 1
    /\ (~EncoderPanicked /\ main_pc \in {"running", "panicked", "done"} /\ ~ENABLED RunStep) =>
          \A t \in Dispatched : job[t].takes = 1

\* C17: within a run the stop flag is unset before the first interrupt and
\* set from then on; every interrupt advances the handler's counter by one,
\* and an interrupt that finds the flag set changes nothing else: not the
\* flag, the queue, the closures at work or the counters.
C17_StopFlagSetOnce ==
    /\ [](global_stop <=> ctrlc_counter > 0)
    /\ [][(global_stop /\ run' = run) => global_stop']_vars
    /\ [][(ctrlc_counter' # ctrlc_counter /\ run' = run) =>
             /\ ctrlc_counter' = ctrlc_counter + 1
             /\ global_stop'
             /\ UNCHANGED <<conf, paths, out_path, fs, dirs, root_exists,
                            main_pc, sent, tx_open, queue, job, counters>>]_vars

C17_Witness ==
    /\ ctrlc_counter = 2
    /\ global_stop
    /\ \E t \in Tasks : job[t].pc = "wdata" /\ job[t].stop_seen = "unset"
    /\ queue # <<>>

\* C18: a path aborted at the dispatch-time check has incremented one
\* counter, a count of aborted paths that is none of the success, skipped,
\* discarded and error counters.
C18_AbortedCounted ==
    \A t \in Tasks :
        (job[t].ret = "Abort" /\ job[t].pc = "returned") =>
            \E c \in CounterNames \ OutcomeCounters : job[t].adds = {<<c, 1>>}

\* C20: a run that ends without the report ended before anything was
\* dispatched: on an invalid pattern or on the output root. Runs in which an
\* encoder panicked are left aside.
C20_FatalOnlyAtStartup ==
    (~EncoderPanicked /\ main_pc \notin {"start", "running", "done", "nothing"}) =>
        /\ main_pc \in {"pattern_error", "exit"}
        /\ Untouched

\* Two dispatched paths with one output path (a.jpg and a.png to a.webp).
Collide(t, u) ==
    /\ t \in Dispatched /\ u \in Dispatched /\ t # u
    /\ out_path[t] = out_path[u]

Max(a, b) == IF a >= b THEN a ELSE b

\* C21 (as stated): when two colliding paths have both returned Success, the
\* output file holds the bytes of one of them, the one that wrote last.
C21_LastWriterWinsAsStated ==
    \A t, u \in Tasks :
        (Collide(t, u) /\ job[t].res[1] = 0 /\ job[u].res[1] = 0) =>
            fs[out_path[t]] \in {Written(t, job[t].res[3]), Written(u, job[u].res[3])}

\* C21: nothing detects a collision: two colliding paths can both return
\* Success, and the output file then holds the bytes of one of them or, when
\* the two writes overlapped and the encodes differ in length, the start of
\* the shorter encode followed by the rest of the longer one.
C21_LastWriterWins ==
    \A t, u \in Tasks :
        (Collide(t, u) /\ job[t].res[1] = 0 /\ job[u].res[1] = 0) =>
            \/ fs[out_path[t]] \in {Written(t, job[t].res[3]), Written(u, job[u].res[3])}
            \/ /\ job[t].res[3] # job[u].res[3]
               /\ fs[out_path[t]].by = -2
               /\ fs[out_path[t]].len = Max(job[t].res[3], job[u].res[3])

\* Path t has returned Success; path u, colliding, has then replaced the file
\* t wrote and returns Success as well.
C21_Witness ==
    \E t, u \in Tasks :
        /\ Collide(t, u)
        /\ job[t].pc = "returned" /\ job[t].res[1] = 0
        /\ AtReturn(u) /\ job[u].res[1] = 0
        /\ job[u].replaced = Written(t, job[t].res[3])
        /\ fs[out_path[u]] = Written(u, job[u].res[3])

\* The sum over the tasks in S of f[t].
RECURSIVE SumOver(_, _)
SumOver(S, f) ==
    IF S = {} THEN 0
    ELSE LET t == CHOOSE x \in S : TRUE IN f[t] + SumOver(S \ {t}, f)

\* The sum of the k-th component of the results of the dispatched paths whose
\* outcome code is in codes.
ResultSum(codes, k) ==
    SumOver({t \in Dispatched : job[t].res[1] \in codes},
            [t \in Tasks |-> job[t].res[k]])

\* What the closures have added to counter c so far.
Added(c) ==
    SumOver(Tasks,
            [t \in Tasks |->
                SumOver({a \in job[t].adds : a[1] = c},
                        [a \in job[t].adds |-> a[2]])])

\* C23: no increment is ever lost: each counter is the sum of what the
\* closures have added to it; and when convert_images has finished, the
\* input and output totals are the sums over the Success and Skipped paths,
\* the pre-existing totals the sums over the Skipped paths, the discarded
\* totals the sums over the Discarded paths.
C23_ByteTotals ==
    /\ \A c \in CounterNames : counters[c] = Added(c)
    /\ main_pc = "done" =>
          /\ counters["size_input_total"] = ResultSum({0, 1}, 2)
          /\ counters["size_output_total"] = ResultSum({0, 1}, 3)
          /\ counters["size_input_preexisting"] = ResultSum({1}, 2)
          /\ counters["size_output_preexisting"] = ResultSum({1}, 3)
          /\ counters["size_input_discarded"] = ResultSum({2}, 2)
          /\ counters["size_output_discarded"] = ResultSum({2}, 3)

\* A finished run of two paths, one Discarded and one Success: the totals
\* hold the Success alone.
C23_Witness ==
    /\ main_pc = "done"
    /\ \E t, u \in Dispatched :
          /\ job[t].res[1] = 2
          /\ job[u].res[1] = 0
          /\ counters["size_input_total"] = job[u].res[2]
          /\ counters["size_output_total"] = job[u].res[3]
          /\ counters["size_input_discarded"] = job[t].res[2]
          /\ counters["size_output_discarded"] = job[t].res[3]
          /\ job[t].res[3] > 0

\* The closure on path t takes the step.
StepOf(t) == job'[t] # job[t]

\* C28 (as stated): within a run, files and directories change only in the
\* write step of a task.
C28_WriteStepOnlyAsStated ==
    [][((fs' # fs \/ dirs' # dirs) /\ run' = run) =>
          \E t \in Tasks : job[t].pc \in {"wopen", "wdata"} /\ StepOf(t)]_vars

\* C28: within a run a file changes only in the write step of a task, and it
\* is that task's output file: a path that is Skipped or Discarded has
\* written nothing. Directories never change in in-place mode; with an output
\* root they change only when a task creates the directory of its output
\* path, before its first existence check.
C28_FilesChangeInWriteStepOnly ==
    /\ [](\A t \in Tasks :
            (AtReturn(t) /\ job[t].res[1] \in {1, 2}) => ~Wrote(t))
    /\ [][(fs' # fs /\ run' = run) =>
            \E t \in Tasks :
                /\ job[t].pc \in {"wopen", "wdata"} /\ StepOf(t)
                /\ \A p \in OutPaths : p # out_path[t] => fs'[p] = fs[p]]_vars
    /\ [][dirs' # dirs =>
            /\ conf.output_set
            /\ \E t \in Tasks :
                  /\ job[t].pc = "mkdir" /\ StepOf(t)
                  /\ job[t].ops = {}
                  /\ dirs' = dirs \cup {out_path[t]}]_vars

\* With an output root, a path is Discarded after create_dir_all: the
\* directory of its output path exists, no file is there and no file has
\* changed since the start.
C28_Witness ==
    \E t \in Tasks :
        /\ conf.output_set /\ run = 1
        /\ AtReturn(t) /\ job[t].res[1] = 2
        /\ "mkdir" \in job[t].ops /\ ~Wrote(t)
        /\ out_path[t] \in dirs
        /\ fs = start_fs /\ fs[out_path[t]] = NoFile

\* C29: the queue holds, in the resolved order, the paths sent and not yet
\* taken; a worker takes the path at its head, so a path is taken only after
\* every path before it in the resolved order has been taken.
C29_FifoHandOff ==
    /\ [](/\ Len(queue) <= sent
          /\ queue = SubSeq(paths, sent - Len(queue) + 1, sent)
          /\ \A i, j \in 1..Len(paths) :
                (i < j /\ job[paths[j]].takes > 0) => job[paths[i]].takes > 0)
    /\ [][\A t \in Tasks :
            job'[t].takes > job[t].takes =>
                /\ queue # <<>> /\ t = Head(queue) /\ queue' = Tail(queue)
                /\ \A i \in 1..Len(paths) :
                      (paths[i] = t) => \A k \in 1..(i - 1) : job[paths[k]].takes > 0]_vars

\* The path taken second has returned Success and written its file while the
\* path taken first is still at its decode.
C29_Witness ==
    /\ Len(paths) = 2
    /\ job[paths[1]].takes = 1 /\ job[paths[1]].pc = "convert"
    /\ job[paths[2]].pc = "returned" /\ job[paths[2]].res[1] = 0
    /\ Wrote(paths[2])
    /\ counters["encode_successful"] = 1

\* The post-encode checks of path t found an output that its encode is not
\* smaller than, and the encode is not smaller than the input either.
BothChecksApply(t) ==
    /\ conf.overwrite_if_smaller /\ conf.discard_if_larger_than_input
    /\ AtReturn(t) /\ Encoded(t) /\ IsFile(job[t].seen2)
    /\ job[t].output_size >= job[t].seen2.len
    /\ job[t].output_size >= job[t].input_size

Passed == {t \in Tasks : Running(t) /\ job[t].stop_seen = "unset"}

\* C34: once the stop flag is set, the closures that can still end with an
\* outcome other than Aborted are those already past the dispatch-time
\* check, at most one per pool thread; no closure passes the check any more,
\* and every other closure that ends, ends Aborted.
C34_StopBoundsLateFinishers ==
    /\ [](global_stop => Cardinality(Passed) <= conf.threads)
    /\ [][(global_stop /\ run' = run) => Passed' \subseteq Passed]_vars
    /\ [][(global_stop /\ run' = run) =>
            \A t \in Tasks :
                (job[t].ret = "none" /\ job'[t].ret # "none") =>
                    job'[t].ret = "Abort" \/ t \in Passed]_vars
    /\ [][global_stop =>
            \A t \in Tasks :
                (job[t].pc = "check" /\ StepOf(t)) =>
                    job'[t].ret = "Abort" /\ job'[t].pc = "returned"]_vars

\* A pool of one thread and two paths: the flag is set while the first path
\* is being converted; it returns Success, the second is still in the queue.
C34_Witness ==
    /\ conf.threads = 1 /\ Len(paths) = 2
    /\ global_stop
    /\ AtReturn(paths[1]) /\ job[paths[1]].res[1] = 0
    /\ job[paths[1]].stop_seen = "unset"
    /\ job[paths[2]].pc = "queued"

\* C35: at every moment the pre-existing input total is at most the input
\* total and the pre-existing output total at most the output total: the
\* differences of lines 292-297 are never negative.
C35_PreexistingWithinTotals ==
    /\ counters["size_input_preexisting"] <= counters["size_input_total"]
    /\ counters["size_output_preexisting"] <= counters["size_output_total"]

\* A Skipped path is in the middle of its fetch_adds, the totals added and the
\* pre-existing totals not yet, while the other path has been counted as a
\* Success.
C35_Witness ==
    \E t, u \in Tasks :
        /\ job[t].pc = "count" /\ job[t].res[1] = 1
        /\ <<"size_output_total", job[t].res[3]>> \in job[t].adds
        /\ <<"size_input_preexisting", job[t].res[2]>> \notin job[t].adds
        /\ job[u].pc = "returned" /\ job[u].res[1] = 0
        /\ counters["size_input_preexisting"] = 0
        /\ counters["size_input_total"] = job[t].res[2] + job[u].res[2]

\* ------------------------------------------------------- the pure helpers
\* Calls of the helpers that touch no shared state, each on an argument drawn
\* from a bounded set; the driver itself is not running.
NotRunning ==
    /\ conf = [output_set |-> FALSE, img_format |-> "Webp", threads |-> 1,
               overwrite_if_smaller |-> FALSE, overwrite_existing |-> FALSE,
               discard_if_larger_than_input |-> FALSE]
    /\ paths = <<>>
    /\ out_path = [t \in Tasks |-> NumPaths + t]
    /\ fs = [p \in OutPaths |-> NoFile]
    /\ dirs = {}
    /\ root_exists = TRUE
    /\ main_pc = "nothing"
    /\ sent = 0
    /\ tx_open = TRUE
    /\ queue = <<>>
    /\ global_stop = FALSE
    /\ ctrlc_counter = 0
    /\ job = [t \in Tasks |-> NewJob]
    /\ counters = [c \in CounterNames |-> 0]
    /\ run = 1
    /\ start_fs = fs
    /\ first_res = [t \in Tasks |-> NoRes[1]]

Pending(fn) == call.fn = fn /\ call.result = <<>>
Called(fn) == call.fn = fn /\ call.result # <<>>

DecodeCalls ==
    {[fn |-> "try_read_image", arg |-> p, result |-> <<>>] : p \in DecodeProfiles}

\* try_read_image(input_path), lines 353-380. A result is wrapped in a
\* one-element sequence; the empty sequence stands for "not yet called".
CallTryReadImage ==
    /\ Pending("try_read_image")
    /\ call' = [call EXCEPT !.result = <<try_read_image(call.arg)>>]
    /\ UNCHANGED <<run, start_fs, first_res, conf, paths, out_path, fs, dirs,
                   root_exists, main_pc, sent, tx_open, queue, global_stop,
                   ctrlc_counter, job, counters>>

\* C12: when every decode strategy fails for a file whose first strategy
\* returned an error, the error try_read_image returns is the first
\* strategy's.
C12_FirstErrorSurfaced ==
    (Called("try_read_image") /\ call.arg.auto = "err"
       /\ call.result[1].kind = "err") =>
        call.result[1].err = "auto"

\* The strategies that apply to an extension, in their order, and what
\* strategy k does on a file.
Applicable(ext) ==
    CASE ext = "jpeg" -> <<1, 2, 3, 4>>
      [] ext = "png" -> <<1, 2, 4>>
      [] OTHER -> <<1, 2>>

Outcome(p, k) ==
    CASE k = 1 -> p.auto
      [] k = 2 -> p.guessed
      [] k = 3 -> p.jpeg_decoder
      [] OTHER -> p.forced

\* C26: the strategies attempted on a file are the first ones of those that
\* apply to its extension, in the order auto-detection, guessed format,
\* jpeg-decoder (jpeg extensions only), forced codec (jpeg and png extensions
\* only); none is attempted after one has succeeded, and an image returned is
\* that of the last one attempted.
C26_StrategyOrder ==
    Called("try_read_image") =>
        LET p == call.arg
            r == call.result[1]
            n == Len(r.tried) IN
        /\ n >= 1 /\ n <= Len(Applicable(p.ext))
        /\ r.tried = SubSeq(Applicable(p.ext), 1, n)
        /\ \A i \in 1..(n - 1) : Outcome(p, r.tried[i]) # "ok"
        /\ r.kind = "img" => r.via = r.tried[n] /\ Outcome(p, r.via) = "ok"

\* A file with a jpeg extension that auto-detection and the guessed format
\* fail on and jpeg-decoder decodes: the forced codec, which would decode it
\* too, is not attempted.
C26_Witness ==
    /\ Called("try_read_image")
    /\ call.arg.ext = "jpeg"
    /\ call.arg.auto = "err" /\ call.arg.guessed = "err"
    /\ call.arg.jpeg_decoder = "ok" /\ call.arg.forced = "ok"
    /\ call.result[1].kind = "img" /\ call.result[1].via = 3
    /\ call.result[1].tried = <<1, 2, 3>>

\* A strategy that applies to the file's extension would decode it.
WouldDecode(p) ==
    \E i \in 1..Len(Applicable(p.ext)) : Outcome(p, Applicable(p.ext)[i]) = "ok"

\* No strategy panics on the file.
NoPanic(p) == \A k \in 1..4 : Outcome(p, k) # "panic"

\* C27: a file that at least one strategy applicable to its extension would
\* decode, and that no strategy panics on, is decoded: try_read_image returns
\* an image.
C27_DecodedIfDecodable ==
    (Called("try_read_image") /\ WouldDecode(call.arg) /\ NoPanic(call.arg)) =>
        call.result[1].kind = "img"

\* ----------------------------------------------------------- path order
\* For the order, a path is the sequence of its components, and a component
\* is the rank of its name among the names in use (a < b, 1.png < 2.png).
Names == 1..MaxNames
SortPaths == {<<n>> : n \in Names} \cup {<<d, n>> : d \in Names, n \in Names}

parent(a) == SubSeq(a, 1, Len(a) - 1)
file_name(a) == a[Len(a)]

\* Ord of Path (component by component) and of a file name: -1, 0 or 1.
RECURSIVE PathOrd(_, _)
PathOrd(a, b) ==
    IF a = <<>> /\ b = <<>> THEN 0
    ELSE IF a = <<>> THEN -1
    ELSE IF b = <<>> THEN 1
    ELSE IF Head(a) < Head(b) THEN -1
    ELSE IF Head(a) > Head(b) THEN 1
    ELSE PathOrd(Tail(a), Tail(b))

NameOrd(x, y) == IF x < y THEN -1 ELSE IF x > y THEN 1 ELSE 0

\* The comparator with the file name compared first.
path_cmp_name_first(a, b, reverse_processing_order) ==
    LET name_cmp == NameOrd(file_name(a), file_name(b))
        cmp == IF name_cmp # 0 THEN name_cmp ELSE PathOrd(parent(a), parent(b)) IN
    IF reverse_processing_order THEN -cmp ELSE cmp

\* Lines 113-126: the comparator handed to sort_by.
path_cmp(a, b, reverse_processing_order) ==
    LET dir_cmp == PathOrd(parent(a), parent(b))
        cmp == IF dir_cmp # 0 THEN dir_cmp
               ELSE NameOrd(file_name(a), file_name(b)) IN
    IF reverse_processing_order THEN -cmp ELSE cmp

\* Vec::sort_by, a stable sort: each element goes in after the elements that
\* do not compare greater than it.
RECURSIVE Insert(_, _, _)
Insert(x, s, reverse_processing_order) ==
    IF s = <<>> THEN <<x>>
    ELSE IF path_cmp(Head(s), x, reverse_processing_order) <= 0
         THEN <<Head(s)>> \o Insert(x, Tail(s), reverse_processing_order)
         ELSE <<x>> \o s

RECURSIVE sort_by(_, _)
sort_by(s, reverse_processing_order) ==
    IF s = <<>> THEN <<>>
    ELSE Insert(s[Len(s)], sort_by(SubSeq(s, 1, Len(s) - 1), reverse_processing_order),
                reverse_processing_order)

\* The lists of distinct paths handed to the sort.
PathLists ==
    {l \in UNION {[1..n -> SortPaths] : n \in 0..MaxList} :
        \A i, j \in 1..Len(l) : i # j => l[i] # l[j]}

SortCalls ==
    {[fn |-> "sort_by", arg |-> [paths |-> l, reverse |-> r], result |-> <<>>] :
        l \in PathLists, r \in BOOLEAN}

\* Lines 112-126.
CallSortBy ==
    /\ Pending("sort_by")
    /\ call' = [call EXCEPT !.result = <<sort_by(call.arg.paths, call.arg.reverse)>>]
    /\ UNCHANGED <<run, start_fs, first_res, conf, paths, out_path, fs, dirs,
                   root_exists, main_pc, sent, tx_open, queue, global_stop,
                   ctrlc_counter, job, counters>>

Reverse(s) == [i \in 1..Len(s) |-> s[Len(s) + 1 - i]]

\* a comes before b in the order by (parent directory, file name).
Before(a, b) ==
    \/ PathOrd(parent(a), parent(b)) < 0
    \/ parent(a) = parent(b) /\ file_name(a) < file_name(b)

\* C13: the forward order holds the input paths, each once, sorted by parent
\* directory first and file name second ([b/1, a/2, a/1] gives
\* [a/1, a/2, b/1]); the order with the reverse flag is the forward order
\* reversed.
C13_ResolvedOrder ==
    Called("sort_by") =>
        LET res == call.result[1]
            fwd == sort_by(call.arg.paths, FALSE) IN
        /\ Len(res) = Len(call.arg.paths)
        /\ {res[i] : i \in 1..Len(res)}
             = {call.arg.paths[i] : i \in 1..Len(call.arg.paths)}
        /\ ~call.arg.reverse =>
              \A i, j \in 1..Len(res) : i < j => Before(res[i], res[j])
        /\ call.arg.reverse => res = Reverse(fwd)
        /\ (~call.arg.reverse /\ call.arg.paths = << <<2, 1>>, <<1, 2>>, <<1, 1>> >>) =>
              res = << <<1, 1>>, <<1, 2>>, <<2, 1>> >>

C13_Witness ==
    /\ Called("sort_by")
    /\ call.arg.reverse
    /\ call.arg.paths = << <<2, 1>>, <<1, 2>>, <<1, 1>> >>
    /\ call.result[1] = << <<2, 1>>, <<1, 2>>, <<1, 1>> >>

\* ---------------------------------------------------------- output path
\* For the output path, a path is its directory components and its file name,
\* and a file name is the sequence of its dot-separated parts (a.b.png is
\* <<"a", "b", "png">>). No name begins with a dot.
extension == "webp"

\* Path::file_stem and Path::with_extension on a file name.
file_stem(name) == IF Len(name) > 1 THEN SubSeq(name, 1, Len(name) - 1) ELSE name
with_extension(name, ext) == file_stem(name) \o <<ext>>

\* normalize_prefix, lines 382-402: leading "." components are dropped.
RECURSIVE normalize_prefix(_)
normalize_prefix(p) ==
    IF p # <<>> /\ Head(p) = "." THEN normalize_prefix(Tail(p)) ELSE p

IsPrefix(b, p) == Len(b) <= Len(p) /\ SubSeq(p, 1, Len(b)) = b

\* Lines 446-448: strip_prefix, or the whole path when the base is no prefix.
rel_path(input_dir, base) ==
    IF IsPrefix(base, input_dir)
    THEN SubSeq(input_dir, Len(base) + 1, Len(input_dir))
    ELSE input_dir

\* Lines 439-453. In output-root mode with_extension is applied after the
\* stem has been joined, that is, to the stem.
output_path(input, pattern_base, output_set) ==
    IF ~output_set
    THEN [dir |-> input.dir, name |-> with_extension(input.name, extension)]
    ELSE [dir |-> <<"out">> \o rel_path(normalize_prefix(input.dir),
                                        normalize_prefix(pattern_base)),
          name |-> with_extension(file_stem(input.name), extension)]

\* The last directory is that of a path the glob yields for a pattern with
\* ".." components after a wildcard component (*/../../*.png).
InputDirs == {<<>>, <<"in">>, <<".", "in">>, <<"in", "sub">>, <<".", "in", "sub">>,
              <<"in", "..", "..">>}
InputNames == {<<"a">>, <<"a", "png">>, <<"a", "b", "png">>, <<"a", "webp">>}
PatternBases == {<<>>, <<"in">>, <<".", "in">>, <<"other">>}

OutputPathCalls ==
    {[fn |-> "output_path",
      arg |-> [input |-> [dir |-> d, name |-> n], pattern_base |-> b, output_set |-> o],
      result |-> <<>>] :
        d \in InputDirs, n \in InputNames, b \in PatternBases, o \in BOOLEAN}

CallOutputPath ==
    /\ Pending("output_path")
    /\ call' = [call EXCEPT !.result =
                   <<output_path(call.arg.input, call.arg.pattern_base,
                                 call.arg.output_set)>>]
    /\ UNCHANGED <<run, start_fs, first_res, conf, paths, out_path, fs, dirs,
                   root_exists, main_pc, sent, tx_open, queue, global_stop,
                   ctrlc_counter, job, counters>>

\* The input's name without its last extension, then the target extension.
StemDotExtension(name) ==
    (IF Len(name) > 1 THEN SubSeq(name, 1, Len(name) - 1) ELSE name) \o <<extension>>

\* C19: the output file name is the input's stem followed by the target
\* extension, in in-place mode and in output-root mode alike, also for names
\* with more than one dot; in output-root mode the directory is the output
\* root followed by the parent directories of the input relative to the
\* pattern base.
C19_OutputName ==
    Called("output_path") =>
        /\ call.result[1].name = StemDotExtension(call.arg.input.name)
        /\ call.arg.output_set =>
              call.result[1].dir
                = <<"out">> \o rel_path(normalize_prefix(call.arg.input.dir),
                                        normalize_prefix(call.arg.pattern_base))

\* ------------------------------------------------------- path resolution
\* What the glob yields: for each entry whether it is a path or a GlobError,
\* and the format ImageFormat::from detects for the path. An entry is named
\* by its position in the list.
Formats == {"Jpeg", "Webp", "Avif", "Unknown"}

GlobEntries == [ok : BOOLEAN, format : Formats]

\* Line 108 with the Avif test (line 109) left out.
Convertible_avif(format) == format # "Unknown"

\* Lines 108-109: the filter on the detected format.
Convertible(format) == format # "Unknown" /\ format # "Avif"

\* Lines 104-111: the entries that are paths and pass the filter, in the
\* order of the glob.
resolve(entries) ==
    SelectSeq([i \in 1..Len(entries) |-> i],
              LAMBDA i : entries[i].ok /\ Convertible(entries[i].format))

ResolveCalls ==
    {[fn |-> "resolve", arg |-> l, result |-> <<>>] :
        l \in UNION {[1..n -> GlobEntries] : n \in 0..MaxList}}

CallResolve ==
    /\ Pending("resolve")
    /\ call' = [call EXCEPT !.result = <<resolve(call.arg)>>]
    /\ UNCHANGED <<run, start_fs, first_res, conf, paths, out_path, fs, dirs,
                   root_exists, main_pc, sent, tx_open, queue, global_stop,
                   ctrlc_counter, job, counters>>

\* How many times entry i is in the list handed to the producer.
Occurrences(s, i) == Cardinality({k \in 1..Len(s) : s[k] = i})

\* C22: the list of paths to dispatch holds no path whose detected format is
\* Unknown or Avif, and holds every matched path of another format once.
C22_OnlyConvertibleDispatched ==
    Called("resolve") =>
        \A i \in 1..Len(call.arg) :
            Occurrences(call.result[1], i) =
                IF call.arg[i].ok /\ call.arg[i].format \notin {"Unknown", "Avif"}
                THEN 1 ELSE 0

\* An Avif file, a file of unknown format and a Jpeg file match: the Jpeg
\* file alone is dispatched.
C22_Witness ==
    /\ Called("resolve")
    /\ Len(call.arg) = 3
    /\ \A i \in 1..3 : call.arg[i].ok
    /\ call.arg[1].format = "Avif"
    /\ call.arg[2].format = "Unknown"
    /\ call.arg[3].format = "Jpeg"
    /\ call.result[1] = <<3>>

\* ------------------------------------------------------------ is_supported
\* ImageFormat::extension and ImageFormat::from_extension as the tests pin
\* them down (tests/integration_tests.rs 33-39, 56-65, 345-363).
format_extension(format) ==
    CASE format = "Jpeg" -> "jpeg"
      [] format = "Png" -> "png"
      [] format = "Webp" -> "webp"
      [] format = "Avif" -> "avif"
      [] OTHER -> "?"

from_extension(ext) ==
    CASE ext \in {"jpg", "jpeg", "pjpeg"} -> "Jpeg"
      [] ext \in {"png", "x-png"} -> "Png"
      [] ext = "webp" -> "Webp"
      [] ext = "avif" -> "Avif"
      [] OTHER -> "Unknown"

\* A file: the extension of its name ("" for none), whether fs::read succeeds
\* and the format image::guess_format finds in its bytes ("none": not a
\* recognizable image).
Extensions == {"", "jpg", "jpeg", "pjpeg", "png", "x-png", "webp", "txt"}
Contents == {"Jpeg", "Png", "Webp", "none"}

\* utils.rs 16-27.
is_supported(file, ignore_format) ==
    IF file.ext # "" /\ file.ext = format_extension(ignore_format) THEN FALSE
    ELSE IF file.readable THEN file.content # "none"
    ELSE FALSE

IsSupportedCalls ==
    {[fn |-> "is_supported",
      arg |-> [file |-> [ext |-> e, readable |-> r, content |-> c], ignore_format |-> f],
      result |-> <<>>] :
        e \in Extensions, r \in BOOLEAN, c \in Contents, f \in {"Jpeg", "Png", "Webp"}}

CallIsSupported ==
    /\ Pending("is_supported")
    /\ call' = [call EXCEPT !.result =
                   <<is_supported(call.arg.file, call.arg.ignore_format)>>]
    /\ UNCHANGED <<run, start_fs, first_res, conf, paths, out_path, fs, dirs,
                   root_exists, main_pc, sent, tx_open, queue, global_stop,
                   ctrlc_counter, job, counters>>

\* C24: is_supported is false for a file of the ignored format named with any
\* spelling of that format's extension and for an unreadable file, and true
\* for a readable
\* file that holds a recognizable image of another format under an extension
\* of another format.
C24_IgnoredFormatRejected ==
    Called("is_supported") =>
        LET file == call.arg.file
            ignored == call.arg.ignore_format IN
        /\ (from_extension(file.ext) = ignored /\ file.content = ignored) =>
              call.result[1] = FALSE
        /\ ~file.readable => call.result[1] = FALSE
        /\ (file.readable /\ file.content \notin {"none", ignored}
              /\ from_extension(file.ext) # ignored) => call.result[1] = TRUE

\* ------------------------------------------------------------ remove_files
MaxEntries == 2

\* A directory entry: whether the pattern matches it, whether it is a regular
\* file or a directory, its size, and which call on it fails, if any (the
\* glob iteration, fs::metadata or fs::remove_file).
DirEntries ==
    [matches : BOOLEAN, kind : {"file", "dir"}, size : Sizes,
     fail : {"none", "entry", "metadata", "remove"}]

\* Line 42 without the test.
is_file_any(e) == TRUE

\* Line 42: path.is_file().
is_file(e) == e.kind = "file"

\* utils.rs 40-47: the loop from entry i on, with the entries deleted and the
\* bytes summed so far; `?` returns at the first failure.
RECURSIVE remove_from(_, _, _, _)
remove_from(entries, i, deleted, total) ==
    IF i > Len(entries) THEN [ok |-> TRUE, deleted |-> deleted, total |-> total]
    ELSE LET e == entries[i] IN
         IF ~e.matches THEN remove_from(entries, i + 1, deleted, total)
         ELSE IF e.fail = "entry" THEN [ok |-> FALSE, deleted |-> deleted, total |-> total]
         ELSE IF ~is_file(e) THEN remove_from(entries, i + 1, deleted, total)
         ELSE IF e.fail = "metadata" THEN [ok |-> FALSE, deleted |-> deleted, total |-> total]
         ELSE IF e.fail = "remove"
              THEN [ok |-> FALSE, deleted |-> deleted, total |-> total + e.size]
         ELSE remove_from(entries, i + 1, deleted \cup {i}, total + e.size)

\* utils.rs 38-53: glob(pattern)? fails on an invalid pattern before anything
\* is touched; the total is printed, and Ok returned, after the loop.
remove_files(pattern_ok, entries) ==
    IF ~pattern_ok THEN [ok |-> FALSE, deleted |-> {}, total |-> 0]
    ELSE remove_from(entries, 1, {}, 0)

RemoveFilesCalls ==
    {[fn |-> "remove_files", arg |-> [pattern_ok |-> p, entries |-> l], result |-> <<>>] :
        p \in BOOLEAN, l \in UNION {[1..n -> DirEntries] : n \in 0..MaxEntries}}

CallRemoveFiles ==
    /\ Pending("remove_files")
    /\ call' = [call EXCEPT !.result =
                   <<remove_files(call.arg.pattern_ok, call.arg.entries)>>]
    /\ UNCHANGED <<run, start_fs, first_res, conf, paths, out_path, fs, dirs,
                   root_exists, main_pc, sent, tx_open, queue, global_stop,
                   ctrlc_counter, job, counters>>

EncodeCalls ==
    {[fn |-> "encode", arg |-> [img_format |-> f, outcome |-> o], result |-> <<>>] :
        f \in {"Webp", "Jpeg", "Unknown"}, o \in EncoderOutcomes}

\* Lines 471-482: the match on the target format.
CallEncode ==
    /\ Pending("encode")
    /\ call' = [call EXCEPT !.result = <<encode(call.arg.img_format, call.arg.outcome)>>]
    /\ UNCHANGED <<run, start_fs, first_res, conf, paths, out_path, fs, dirs,
                   root_exists, main_pc, sent, tx_open, queue, global_stop,
                   ctrlc_counter, job, counters>>

\* C30: a panic raised inside an encoder is not turned into an error value:
\* it leaves the encode step as a panic.
C30_EncoderPanicNotSuppressed ==
    (Called("encode") /\ call.arg.img_format \in {"Webp", "Jpeg"}
       /\ call.arg.outcome = "panic") =>
        call.result[1].kind = "panic"

\* ------------------------------------------------------------ pattern base
\* A glob pattern is the sequence of its components; a component with one of
\* '*', '?', '[' is a wildcard component. An input path is the sequence of its
\* components, the file name last.
MaxDepth == 3

WildComponents == {"*", "s?b", "*.png", "[ab].png"}
DirComponents == {".", "in", "sub", "*", "s?b"}
FileComponents == {"a.png", "*.png", "[ab].png"}

IsWild(c) == c \in WildComponents

Patterns ==
    {p \in UNION {[1..n -> DirComponents \cup FileComponents] : n \in 1..MaxDepth} :
        /\ p[Len(p)] \in FileComponents
        /\ \A i \in 1..(Len(p) - 1) : p[i] \in DirComponents
        /\ \A i \in 2..Len(p) : p[i] # "."}

\* Lines 76-88 going on after a wildcard component instead of stopping.
RECURSIVE base_from_pattern_no_break(_)
base_from_pattern_no_break(pattern) ==
    IF pattern = <<>> THEN <<>>
    ELSE IF IsWild(Head(pattern)) THEN base_from_pattern_no_break(Tail(pattern))
    ELSE <<Head(pattern)>> \o base_from_pattern_no_break(Tail(pattern))

\* Lines 79-85: the loop that pushes components until the first wildcard
\* component.
RECURSIVE push_until_wildcard(_)
push_until_wildcard(pattern) ==
    IF pattern = <<>> \/ IsWild(Head(pattern)) THEN <<>>
    ELSE <<Head(pattern)>> \o push_until_wildcard(Tail(pattern))

\* Lines 76-88.
base_from_pattern(pattern) == push_until_wildcard(pattern)

\* The names a component matches.
ComponentMatches(c) ==
    CASE c = "*" -> {"in", "sub"}
      [] c = "s?b" -> {"sub"}
      [] c \in {"*.png", "[ab].png"} -> {"a.png"}
      [] OTHER -> {c}

\* The paths the glob yields for a pattern: a leading "." of the pattern is
\* not part of them.
Matched(pattern) ==
    LET p == normalize_prefix(pattern) IN
    {i \in [1..Len(p) -> {"in", "sub", "a.png"}] :
        \A k \in 1..Len(p) : i[k] \in ComponentMatches(p[k])}

\* A pattern and a path it matches.
BasePatternCalls ==
    UNION {{[fn |-> "base_from_pattern", arg |-> [pattern |-> p, input |-> i],
             result |-> <<>>] : i \in Matched(p)} : p \in Patterns}

CallBaseFromPattern ==
    /\ Pending("base_from_pattern")
    /\ call' = [call EXCEPT !.result = <<base_from_pattern(call.arg.pattern)>>]
    /\ UNCHANGED <<run, start_fs, first_res, conf, paths, out_path, fs, dirs,
                   root_exists, main_pc, sent, tx_open, queue, global_stop,
                   ctrlc_counter, job, counters>>

\* The parent directory of an input path.
ParentDir(input) == SubSeq(input, 1, Len(input) - 1)

\* C31 (as stated): the base is the longest leading run of components
\* without a wildcard, and for every matched input it is, leading "."
\* components apart, a prefix of the input's parent directory.
C31_BaseIsDirectoryPrefixAsStated ==
    Called("base_from_pattern") =>
        LET base == call.result[1]
            pattern == call.arg.pattern IN
        /\ IsPrefix(base, pattern)
        /\ \A k \in 1..Len(base) : base[k] \notin WildComponents
        /\ Len(base) < Len(pattern) => pattern[Len(base) + 1] \in WildComponents
        /\ IsPrefix(normalize_prefix(base), ParentDir(normalize_prefix(call.arg.input)))

\* C31: the base is the longest leading run of components without a
\* wildcard. For a pattern with a wildcard it is, leading "." components
\* apart, a prefix of the parent directory of every matched input; for a
\* pattern without a wildcard it is the whole pattern, the file name
\* included, that is, the matched input itself.
C31_BaseIsLiteralPrefix ==
    Called("base_from_pattern") =>
        LET base == call.result[1]
            pattern == call.arg.pattern
            input == normalize_prefix(call.arg.input) IN
        /\ IsPrefix(base, pattern)
        /\ \A k \in 1..Len(base) : base[k] \notin WildComponents
        /\ Len(base) < Len(pattern) => pattern[Len(base) + 1] \in WildComponents
        /\ (\E k \in 1..Len(pattern) : pattern[k] \in WildComponents) =>
              IsPrefix(normalize_prefix(base), ParentDir(input))
        /\ (\A k \in 1..Len(pattern) : pattern[k] \notin WildComponents) =>
              base = pattern /\ normalize_prefix(base) = input

\* ./in/*.png matches in/a.png: the base is ./in.
C31_Witness ==
    /\ Called("base_from_pattern")
    /\ call.arg.pattern = <<".", "in", "*.png">>
    /\ call.arg.input = <<"in", "a.png">>
    /\ call.result[1] = <<".", "in">>

\* C33: the path a task writes to is not the path of its input file.
C33_OutputIsNoInput ==
    Called("output_path") =>
        call.result[1] # [dir |-> call.arg.input.dir, name |-> call.arg.input.name]

\* Followed from a directory depth levels below the output root, the
\* components lead above the output root.
RECURSIVE LeadsAbove(_, _)
LeadsAbove(components, depth) ==
    IF components = <<>> THEN FALSE
    ELSE IF Head(components) = ".."
         THEN depth = 0 \/ LeadsAbove(Tail(components), depth - 1)
    ELSE IF Head(components) = "." THEN LeadsAbove(Tail(components), depth)
    ELSE LeadsAbove(Tail(components), depth + 1)

\* C36: with an output root, the directory a task creates and writes its file
\* in lies inside the output root.
C36_InsideOutputRoot ==
    (Called("output_path") /\ call.arg.output_set) =>
        /\ Head(call.result[1].dir) = "out"
        /\ ~LeadsAbove(Tail(call.result[1].dir), 0)

\* ------------------------------------------- the helpers' specification
PureInit ==
    /\ NotRunning
    /\ call \in DecodeCalls \cup SortCalls \cup OutputPathCalls
                 \cup ResolveCalls
                 \cup IsSupportedCalls
                 \cup RemoveFilesCalls
                 \cup EncodeCalls
                 \cup BasePatternCalls

PureNext ==
    \/ CallTryReadImage
    \/ CallSortBy
    \/ CallOutputPath
    \/ CallResolve
    \/ CallIsSupported
    \/ CallRemoveFiles
    \/ CallEncode
    \/ CallBaseFromPattern

PureSpec == PureInit /\ [][PureNext]_vars

====
